---- MODULE Spec2Model ----
(***************************************************************************)
(* A model of the raft crate (src/src/lib.rs): one RaftNode per node id,   *)
(* each run by its own thread that loops over tick().  tick() polls the    *)
(* UDP socket, the client-request channel and the one-shot heartbeat       *)
(* timer, in that order, and calls the handler of whatever it finds.       *)
(* What the socket and the request channel hold is for the network and the *)
(* client to decide: each poll finds nothing, or any datagram or request.  *)
(* Most handlers are `unimplemented!()`: they panic, which unwinds and     *)
(* ends the node's thread.                                                 *)
(***************************************************************************)
EXTENDS Integers, Sequences, FiniteSets

\* ---------------------------------------------------------------- bounds
NumNodes == 2
MaxTerm == 1
MaxLog == 1

Nodes == 1 .. NumNodes
Terms == 0 .. MaxTerm
Values == {"x"}

\* --------------------------------------------------------------- state
VARIABLES
    raft_node,    \* raft_node[n]: the fields of node n's RaftNode struct
    heartbeat,    \* heartbeat[n]: the one-shot timer channel of node n
    running,      \* running[n]: node n's thread has not panicked
    pc,           \* pc[n]: which of tick()'s three polls node n does next
    last,         \* the most recent poll: what it handled, what it sent, and
                  \* which polls of that call of tick() have run a handler
    votes_granted \* every vote a node has granted: voter, term, candidate

vars == <<raft_node, heartbeat, running, pc, last, votes_granted>>

\* ------------------------------------------------ the types of lib.rs
\* enum NodeState { Follower, Leader(LeaderState), Candidate }
Follower == [role |-> "Follower", leader_state |-> <<>>]
Candidate == [role |-> "Candidate", leader_state |-> <<>>]
Leader(ls) == [role |-> "Leader", leader_state |-> <<ls>>]

\* struct LeaderState { next_index: Vec<u64>, match_index: Vec<u64> }
LeaderState(next_index, match_index) ==
    [next_index |-> next_index, match_index |-> match_index]

\* struct PersistentState { current_term, voted_for, log }
PersistentState(current_term, voted_for, log) ==
    [current_term |-> current_term, voted_for |-> voted_for, log |-> log]

\* struct VolatileState { commit_index, last_applied }
VolatileState(commit_index, last_applied) ==
    [commit_index |-> commit_index, last_applied |-> last_applied]

\* Option<u64>: None is the empty sequence, Some(v) the sequence <<v>>.
None == <<>>
Some(v) == <<v>>

\* The datagrams a socket can deliver.  RequestVote and AppendEntries decode
\* as a RemoteProcedureCall, Accepted and Rejected as a
\* RemoteProcedureResponse; "Malformed" is text that decodes as neither and
\* "InvalidUtf8" is bytes that are not text.
RequestVote(term, candidate_id, last_log_index, last_log_term) ==
    [kind |-> "RequestVote", term |-> term, candidate_id |-> candidate_id,
     last_log_index |-> last_log_index, last_log_term |-> last_log_term]
AppendEntries(term, leader, prev_log_index, prev_log_term, entries, leader_commit) ==
    [kind |-> "AppendEntries", term |-> term, leader_id |-> leader,
     prev_log_index |-> prev_log_index, prev_log_term |-> prev_log_term,
     entries |-> entries, leader_commit |-> leader_commit]
Accepted(term) == [kind |-> "Accepted", term |-> term]
Rejected(term, current_leader) ==
    [kind |-> "Rejected", term |-> term, current_leader |-> current_leader]
Malformed == [kind |-> "Malformed"]
InvalidUtf8 == [kind |-> "InvalidUtf8"]

RequestVotes ==
    { RequestVote(t, c, i, lt) : t \in Terms, c \in Nodes, i \in 0 .. MaxLog, lt \in Terms }
AppendEntriesCalls ==
    { AppendEntries(t, l, i, 0, <<>>, 0) : t \in Terms, l \in Nodes, i \in 0 .. MaxLog }
Responses ==
    { Accepted(t) : t \in Terms } \cup { Rejected(t, l) : t \in Terms, l \in Nodes }
Datagrams ==
    RequestVotes \cup AppendEntriesCalls \cup Responses \cup {Malformed, InvalidUtf8}

\* The address recv_from reports with a datagram: a candidate's for its
\* RequestVote, a leader's for its AppendEntries, any node's otherwise.
Sources(data) ==
    CASE data.kind = "RequestVote" -> {data.candidate_id}
      [] data.kind = "AppendEntries" -> {data.leader_id}
      [] data.kind = "Rejected" -> {data.current_leader}
      [] OTHER -> {1}

\* enum ClientRequest { IndexRange(IndexRange), AppendRequest(AppendRequest<T>) }
ClientRequests ==
    { [kind |-> "AppendRequest", value |-> v] : v \in Values }
        \cup { [kind |-> "IndexRange", start |-> 0, end |-> 0] }

\* ------------------------------------------------------- handler results
\* A handler returns the node as it leaves it, the datagrams it sent on the
\* socket, the results it sent on res_send and whether it panicked
\* (unwrap() on None or Err, panic!, unimplemented!).
Done(node, out) == [node |-> node, out |-> out, res |-> <<>>, panicked |-> FALSE]
Panic(node) == [node |-> node, out |-> <<>>, res |-> <<>>, panicked |-> TRUE]

\* --------------------------------------------------------- the Raft trait
\* impl Raft for RaftNode: both calls are stubs that return (0, false), and
\* nothing calls them.
append_entries(term, leader, prev_log_index, prev_log_term, entries, leader_commit) ==
    <<0, FALSE>>
request_vote(term, candidate_id, last_log_index, last_log_term) == <<0, FALSE>>

\* ------------------------------------------------------------ handlers
\* campaign, were it to take the leadership at once instead of standing as
\* Candidate and waiting for votes.
campaign_leads(node) ==
    IF node.state = Follower
    THEN Done([node EXCEPT
                 !.state = Leader(LeaderState([p \in Nodes |-> 1], [p \in Nodes |-> 0])),
                 !.leader_id = Some(node.own_id)],
              <<>>)
    ELSE Panic(node)

\* fn campaign(&mut self): a Follower becomes Candidate, any other role
\* panics; then `unimplemented!()` panics before anything is sent.
campaign(node) ==
    IF node.state = Follower
    THEN Panic([node EXCEPT !.state = Candidate])
    ELSE Panic(node)

\* handle_request_vote, were its Leader arm to answer with the other variant
\* of RemoteProcedureResponse.
handle_request_vote_accepts(node, call, source) ==
    IF node.state.role = "Leader"
    THEN IF node.leader_id = None
         THEN Panic(node)
         ELSE Done(node,
                   <<[to |-> source,
                      data |-> Accepted(node.persistent_state.current_term)]>>)
    ELSE Panic(node)

\* handle_request_vote, were it to grant on the term alone, without comparing
\* the candidate's log with its own.
handle_request_vote_any_log(node, call, source) ==
    IF call.term >= node.persistent_state.current_term
    THEN Done([node EXCEPT !.persistent_state.voted_for = call.candidate_id],
              <<[to |-> source,
                 data |-> Accepted(node.persistent_state.current_term)]>>)
    ELSE Panic(node)

\* handle_request_vote, were its Leader arm to take over the term of the call
\* without comparing it with its own.
handle_request_vote_takes_term(node, call, source) ==
    IF node.state.role = "Leader"
    THEN IF node.leader_id = None
         THEN Panic(node)
         ELSE Done([node EXCEPT !.persistent_state.current_term = call.term],
                   <<[to |-> source,
                      data |-> Rejected(call.term, node.leader_id[1])]>>)
    ELSE Panic(node)

\* handle_request_vote, were its Leader arm to answer with the term of the
\* call instead of its own.
handle_request_vote_echoes_term(node, call, source) ==
    IF node.state.role = "Leader"
    THEN IF node.leader_id = None
         THEN Panic(node)
         ELSE Done(node,
                   <<[to |-> source,
                      data |-> Rejected(call.term, node.leader_id[1])]>>)
    ELSE Panic(node)

\* fn handle_request_vote(&mut self, call, source): a Leader answers
\* Rejected { term: current_term, current_leader: leader_id.unwrap() } to
\* `source` and changes nothing; Follower and Candidate are unimplemented.
handle_request_vote(node, call, source) ==
    IF node.state.role = "Leader"
    THEN IF node.leader_id = None
         THEN Panic(node)
         ELSE Done(node,
                   <<[to |-> source,
                      data |-> Rejected(node.persistent_state.current_term,
                                        node.leader_id[1])]>>)
    ELSE Panic(node)

\* handle_append_entries, were it to take the caller's leader_commit as its
\* commit_index without keeping the larger of the two.
handle_append_entries_regress(node, call, source) ==
    Done([node EXCEPT !.volatile_state.commit_index = call.leader_commit],
         <<[to |-> source, data |-> Accepted(node.persistent_state.current_term)]>>)

\* handle_append_entries, were it to cut the log back to prev_log_index and
\* append the entries in every role, the Leader's included.
handle_append_entries_truncate(node, call, source) ==
    Done([node EXCEPT
            !.persistent_state.log =
                SubSeq(@, 1, IF call.prev_log_index < Len(@)
                             THEN call.prev_log_index ELSE Len(@)) \o call.entries],
         <<[to |-> source, data |-> Accepted(node.persistent_state.current_term)]>>)

\* fn handle_append_entries: unimplemented in all three roles.
handle_append_entries(node, call, source) == Panic(node)

\* fn handle_append_request: unimplemented in all three roles.
handle_append_request(node, request) == Panic(node)

\* fn handle_index_range: unimplemented.
handle_index_range(node, request) == Panic(node)

\* fn handle_accepted: unimplemented.
handle_accepted(node, response, source) == Panic(node)

\* fn handle_rejected: unimplemented.
handle_rejected(node, response, source) == Panic(node)

\* fn handle_timer: a Leader's heartbeat is unimplemented, a Follower
\* campaigns, a Candidate panics.
handle_timer(node) ==
    IF node.state.role = "Follower"
    THEN campaign(node)
    ELSE Panic(node)

\* The socket arm of tick(): from_utf8(..).unwrap() panics on bytes that
\* are not text; text is decoded as a RemoteProcedureCall, else as a
\* RemoteProcedureResponse, else it is dropped.
socket_dispatch(node, data, source) ==
    CASE data.kind = "InvalidUtf8" -> Panic(node)
      [] data.kind = "RequestVote" -> handle_request_vote(node, data, source)
      [] data.kind = "AppendEntries" -> handle_append_entries(node, data, source)
      [] data.kind = "Accepted" -> handle_accepted(node, data, source)
      [] data.kind = "Rejected" -> handle_rejected(node, data, source)
      [] OTHER -> Done(node, <<>>)

socket_handler(data) ==
    CASE data.kind = "RequestVote" -> "handle_request_vote"
      [] data.kind = "AppendEntries" -> "handle_append_entries"
      [] data.kind = "Accepted" -> "handle_accepted"
      [] data.kind = "Rejected" -> "handle_rejected"
      [] OTHER -> "none"

\* The client arm of tick().
client_dispatch(node, request) ==
    IF request.kind = "IndexRange"
    THEN handle_index_range(node, request)
    ELSE handle_append_request(node, request)

client_handler(request) ==
    IF request.kind = "IndexRange" THEN "handle_index_range" ELSE "handle_append_request"

\* --------------------------------------------------------------- history
NoInput == [kind |-> "None"]

\* Before any poll.
NoEvent ==
    [node |-> 0, role |-> "none", poll |-> "none", handler |-> "none",
     input |-> NoInput, source |-> 0, out |-> <<>>, res |-> <<>>,
     panicked |-> FALSE, tick |-> <<>>]

\* The polls of this call of tick() that have run a handler: those of the
\* polls before this one, when they were the same node's and tick() has
\* not returned since, and this one if it runs a handler.
TickSoFar(n, poll, handler) ==
    (IF last.node = n /\ last.poll # "timer" THEN last.tick ELSE <<>>)
        \o (IF handler = "none" THEN <<>> ELSE <<poll>>)

Event(n, poll, handler, input, source, r) ==
    [node |-> n, role |-> raft_node[n].state.role, poll |-> poll,
     handler |-> handler, input |-> input, source |-> source,
     out |-> r.out, res |-> r.res, panicked |-> r.panicked,
     tick |-> TickSoFar(n, poll, handler)]

\* A vote is granted when the handler answers Accepted or records the
\* candidate in voted_for.
Granted(node, call, r) ==
    \/ \E i \in 1 .. Len(r.out) : r.out[i].data.kind = "Accepted"
    \/ /\ r.node.persistent_state.voted_for # node.persistent_state.voted_for
       /\ r.node.persistent_state.voted_for = call.candidate_id

\* ----------------------------------------------------------- the program
\* The RaftNode built by start(): Follower, term 0, voted_for 0, empty log,
\* commit_index 0, last_applied 0, no leader.
NewRaftNode(id) ==
    [state |-> Follower,
     persistent_state |-> PersistentState(0, 0, <<>>),
     volatile_state |-> VolatileState(0, 0),
     leader_id |-> None,
     own_id |-> id]

Init ==
    /\ raft_node = [n \in Nodes |-> NewRaftNode(n)]
    /\ heartbeat = [n \in Nodes |-> "armed"]
    /\ running = [n \in Nodes |-> TRUE]
    /\ pc = [n \in Nodes |-> "socket"]
    /\ last = NoEvent
    /\ votes_granted = {}

\* tick(), were it to go back to a source that had something for it
\* (`while let` for `match`) instead of going on to the next source.
Finish_drain(n, poll, next, handler, input, source, r) ==
    /\ raft_node' = [raft_node EXCEPT ![n] = r.node]
    /\ running' = [running EXCEPT ![n] = ~r.panicked]
    /\ pc' = [pc EXCEPT ![n] = IF handler = "none" THEN next ELSE poll]
    /\ last' = Event(n, poll, handler, input, source, r)

\* What a poll leaves behind: the node, whether its thread lives, and where
\* tick() goes next.
Finish(n, poll, next, handler, input, source, r) ==
    /\ raft_node' = [raft_node EXCEPT ![n] = r.node]
    /\ running' = [running EXCEPT ![n] = ~r.panicked]
    /\ pc' = [pc EXCEPT ![n] = next]
    /\ last' = Event(n, poll, handler, input, source, r)

\* A panic unwinds the thread and drops the RaftNode, and with it the
\* receiving end of its timer channel.
Channels(n, r, timer) ==
    heartbeat' = [heartbeat EXCEPT ![n] = IF r.panicked THEN "dropped" ELSE timer]

\* socket.recv_from returns Err: nothing on the socket.
SocketEmpty(n) ==
    /\ running[n] /\ pc[n] = "socket"
    /\ Finish(n, "socket", "client", "none", NoInput, 0, Done(raft_node[n], <<>>))
    /\ UNCHANGED <<heartbeat, votes_granted>>

\* socket.recv_from returns a datagram.  The socket is plain UDP and the
\* sender is not checked, so any datagram from any address may arrive, any
\* number of times and in any order.
SocketRecv(n) ==
    /\ running[n] /\ pc[n] = "socket"
    /\ \E data \in Datagrams : \E source \in Sources(data) :
         LET r == socket_dispatch(raft_node[n], data, source) IN
           /\ Finish(n, "socket", "client", socket_handler(data), data, source, r)
           /\ votes_granted' =
                IF data.kind = "RequestVote" /\ Granted(raft_node[n], data, r)
                THEN votes_granted \cup
                       {[voter |-> n,
                         term |-> r.node.persistent_state.current_term,
                         candidate_id |-> data.candidate_id]}
                ELSE votes_granted
           /\ Channels(n, r, heartbeat[n])

\* req_recv.try_recv returns Err: nothing in the channel.
ClientEmpty(n) ==
    /\ running[n] /\ pc[n] = "client"
    /\ Finish(n, "client", "timer", "none", NoInput, 0, Done(raft_node[n], <<>>))
    /\ UNCHANGED <<heartbeat, votes_granted>>

\* req_recv.try_recv returns a request.  The sending end is handed to the
\* caller of start(), who may send any request at any time.
ClientRecv(n) ==
    /\ running[n] /\ pc[n] = "client"
    /\ \E request \in ClientRequests :
         LET r == client_dispatch(raft_node[n], request)
         IN /\ Finish(n, "client", "timer", client_handler(request), request, 0, r)
            /\ Channels(n, r, heartbeat[n])
    /\ UNCHANGED votes_granted

\* The one-shot timer armed by start() fires.
TimerFire(n) ==
    /\ running[n] /\ heartbeat[n] = "armed"
    /\ heartbeat' = [heartbeat EXCEPT ![n] = "fired"]
    /\ UNCHANGED <<raft_node, running, pc, last, votes_granted>>

\* heartbeat.try_recv returns Err: the timer has not fired (or its one
\* message was taken before).
TimerEmpty(n) ==
    /\ running[n] /\ pc[n] = "timer" /\ heartbeat[n] # "fired"
    /\ Finish(n, "timer", "socket", "none", NoInput, 0, Done(raft_node[n], <<>>))
    /\ UNCHANGED <<heartbeat, votes_granted>>

\* heartbeat.try_recv returns the timer's message.
TimerRecv(n) ==
    /\ running[n] /\ pc[n] = "timer" /\ heartbeat[n] = "fired"
    /\ LET r == handle_timer(raft_node[n])
       IN /\ Finish(n, "timer", "socket", "handle_timer", NoInput, 0, r)
          /\ Channels(n, r, "taken")
    /\ UNCHANGED votes_granted

Next ==
    \E n \in Nodes :
        \/ SocketEmpty(n)
        \/ SocketRecv(n)
        \/ ClientEmpty(n)
        \/ ClientRecv(n)
        \/ TimerFire(n)
        \/ TimerEmpty(n)
        \/ TimerRecv(n)

Spec == Init /\ [][Next]_vars

\* ------------------------------------------- the handlers on any RaftNode
\* start() only ever builds a fresh Follower and no handler builds a Leader,
\* so the Leader and Candidate arms of the handlers never run from Init.
\* InitHandlers starts one node's thread on any RaftNode value the struct
\* can hold: any role, term, vote and log, with commit_index within the
\* log, last_applied within commit_index and, as handle_request_vote
\* expects of a Leader ("Should be self."), a Leader's leader_id its own id.
\* A voted_for other than 0 is the vote the node has granted in its term.
Logs == UNION { [1 .. k -> Values] : k \in 0 .. MaxLog }

NodeStates(log) ==
    { Follower, Candidate,
      Leader(LeaderState([p \in Nodes |-> Len(log) + 1], [p \in Nodes |-> 0])) }

RaftNodes(id) ==
    UNION { UNION { { [state |-> st,
                       persistent_state |-> PersistentState(t, v, log),
                       volatile_state |-> VolatileState(c, a),
                       leader_id |-> l,
                       own_id |-> id] :
                        st \in NodeStates(log), t \in Terms, v \in 0 .. NumNodes,
                        a \in 0 .. c, l \in {None} \cup { Some(m) : m \in Nodes } } :
                    c \in 0 .. Len(log) } :
            log \in Logs }

ValidRaftNode(node) ==
    /\ node.state \in NodeStates(node.persistent_state.log)
    /\ node.volatile_state.commit_index <= Len(node.persistent_state.log)
    /\ node.volatile_state.last_applied <= node.volatile_state.commit_index
    /\ node.state.role = "Leader" => node.leader_id = Some(node.own_id)

InitHandlers ==
    \E n \in Nodes : \E node \in RaftNodes(n) :
        /\ ValidRaftNode(node)
        /\ raft_node = [m \in Nodes |-> IF m = n THEN node ELSE NewRaftNode(m)]
        /\ heartbeat = [m \in Nodes |-> IF m = n THEN "armed" ELSE "dropped"]
        /\ running = [m \in Nodes |-> m = n]
        /\ pc = [m \in Nodes |-> "socket"]
        /\ last = NoEvent
        /\ votes_granted =
             IF node.persistent_state.voted_for = 0
             THEN {}
             ELSE {[voter |-> n,
                    term |-> node.persistent_state.current_term,
                    candidate_id |-> node.persistent_state.voted_for]}

SpecHandlers == InitHandlers /\ [][Next]_vars

\* ----------------------------------------------------------- properties
Role(n) == raft_node[n].state.role
CurrentTerm(n) == raft_node[n].persistent_state.current_term
Log(n) == raft_node[n].persistent_state.log
CommitIndex(n) == raft_node[n].volatile_state.commit_index

\* This step is a poll of node n's tick(): `last'` is what it handled.
Polled(n) ==
    /\ running[n]
    /\ last'.node = n
    /\ last'.poll = pc[n]
    /\ pc'[n] # pc[n] \/ ~running'[n]

\* This step is node n's handle_request_vote.
HandledRequestVote(n) ==
    Polled(n) /\ last'.handler = "handle_request_vote"

\* The vote was granted in this step.
GrantedNow(n) ==
    Granted(raft_node[n], last'.input, [node |-> raft_node'[n], out |-> last'.out])

IsPrefix(s, t) == Len(s) <= Len(t) /\ SubSeq(t, 1, Len(s)) = s

\* C1. Election safety: no two nodes are Leader in the same term.
ElectionSafety ==
    \A n \in Nodes, m \in Nodes :
        (n # m /\ Role(n) = "Leader" /\ Role(m) = "Leader")
            => CurrentTerm(n) # CurrentTerm(m)

\* Two nodes have campaigned in the same term.
TwoCampaignsInOneTerm ==
    \E n \in Nodes, m \in Nodes :
        /\ n # m
        /\ Role(n) = "Candidate" /\ Role(m) = "Candidate"
        /\ CurrentTerm(n) = CurrentTerm(m)

\* C2. Vote-once: in one term a node grants its vote to at most one
\* candidate id, whatever RequestVote messages it processes.
VoteOnce ==
    \A n \in Nodes, t \in Terms :
        Cardinality({ g.candidate_id : g \in
            { h \in votes_granted : h.voter = n /\ h.term = t } }) <= 1

\* A node that has voted in its term has answered the RequestVote of
\* another candidate for that term, and has granted no second vote.
SecondCandidateAnswered ==
    /\ last.node \in Nodes
    /\ last.handler = "handle_request_vote"
    /\ ~last.panicked
    /\ last.input.term = CurrentTerm(last.node)
    /\ raft_node[last.node].persistent_state.voted_for # 0
    /\ last.input.candidate_id # raft_node[last.node].persistent_state.voted_for
    /\ \E g \in votes_granted : g.voter = last.node /\ g.term = last.input.term

\* C5. Commit monotonicity: no step lowers a node's commit_index.
CommitMonotonic ==
    [][\A n \in Nodes :
          raft_node'[n].volatile_state.commit_index >= CommitIndex(n)]_vars

\* A node that had committed an entry has handled a message and still
\* holds its commit_index.
CommittedNodeHandled ==
    /\ last.node \in Nodes
    /\ last.handler = "handle_request_vote"
    /\ ~last.panicked
    /\ CommitIndex(last.node) > 0

\* The terms the last entry of a node's log may carry: 0 for the empty log;
\* the log is a Vec<T> that keeps no term with an entry, so for any other
\* log every term is taken.
LastLogTerms(node) ==
    IF node.persistent_state.log = <<>> THEN {0} ELSE Terms

\* (last_log_term, last_log_index) of the call is lexicographically smaller
\* than the voter's own pair.
LessUpToDate(call, node) ==
    \E t \in LastLogTerms(node) :
        \/ call.last_log_term < t
        \/ call.last_log_term = t
           /\ call.last_log_index < Len(node.persistent_state.log)

\* C6. Up-to-date vote gate: a RequestVote whose (last_log_term,
\* last_log_index) is smaller than the voter's own is never granted,
\* whatever its term and the voter's voted_for.
UpToDateVoteGate ==
    [][\A n \in Nodes :
          (HandledRequestVote(n) /\ LessUpToDate(last'.input, raft_node[n]))
              => ~GrantedNow(n)]_vars

\* A voter whose log is longer than the candidate's has answered the
\* candidate's RequestVote without granting it.
StaleCandidateAnswered ==
    /\ last.node \in Nodes
    /\ last.handler = "handle_request_vote"
    /\ ~last.panicked
    /\ last.input.last_log_term = 0
    /\ last.input.last_log_index < Len(Log(last.node))
    /\ last.out # <<>>
    /\ \A i \in 1 .. Len(last.out) : last.out[i].data.kind = "Rejected"

\* C7. Leader append-only: a step of a node that is Leader leaves its log a
\* prefix of the log after it.
LeaderAppendOnly ==
    [][\A n \in Nodes :
          Role(n) = "Leader" => IsPrefix(Log(n), raft_node'[n].persistent_state.log)]_vars

\* A Leader with an entry in its log has handled a message and is Leader
\* still, with the entry in place.
LeaderWithLogHandled ==
    /\ last.node \in Nodes
    /\ last.handler = "handle_request_vote"
    /\ ~last.panicked
    /\ Role(last.node) = "Leader"
    /\ Log(last.node) # <<>>

\* C8. Term monotonicity: no step lowers a node's current_term.
TermMonotonic ==
    [][\A n \in Nodes :
          raft_node'[n].persistent_state.current_term >= CurrentTerm(n)]_vars

\* A node has handled a call of a term below its own and kept its term.
LowerTermHandled ==
    /\ last.node \in Nodes
    /\ last.handler = "handle_request_vote"
    /\ ~last.panicked
    /\ last.input.term < CurrentTerm(last.node)

NotLeaderAppendFails ==
    [][\A n \in Nodes :
          (/\ Polled(n)
           /\ last'.handler = "handle_append_request"
           /\ Role(n) # "Leader")
              => /\ running'[n]
                 /\ Len(last'.res) = 1
                 /\ last'.res[1].kind = "Err"
                 /\ raft_node'[n].state = raft_node[n].state
                 /\ raft_node'[n].persistent_state = raft_node[n].persistent_state]_vars

\* C13. A datagram that is no RPC call and no RPC response, bytes that are
\* not text included, is dropped: the node is unchanged, nothing is sent and
\* the node goes on to its next poll.
NoiseIsDropped ==
    [][\A n \in Nodes :
          (/\ Polled(n)
           /\ last'.poll = "socket"
           /\ last'.input.kind \in {"Malformed", "InvalidUtf8"})
              => /\ running'[n]
                 /\ raft_node'[n] = raft_node[n]
                 /\ last'.out = <<>>
                 /\ last'.res = <<>>]_vars

\* A RequestVote of term `term` has gone to every peer of node n.
RequestVoteBroadcast(n, out, term) ==
    \A p \in Nodes \ {n} :
        \E i \in 1 .. Len(out) :
            /\ out[i].to = p
            /\ out[i].data.kind = "RequestVote"
            /\ out[i].data.term = term
            /\ out[i].data.candidate_id = n

\* The node has started a campaign in this step: it is Candidate in the
\* next term, has voted for itself, has its timer armed again, has sent
\* RequestVote to every peer and runs on.
CampaignStarted(n) ==
    /\ running'[n]
    /\ raft_node'[n].state = Candidate
    /\ raft_node'[n].persistent_state.current_term = CurrentTerm(n) + 1
    /\ raft_node'[n].persistent_state.voted_for = n
    /\ heartbeat'[n] = "armed"
    /\ RequestVoteBroadcast(n, last'.out, CurrentTerm(n) + 1)

\* C14. When its timer fires, a Follower starts a campaign.
FollowerTimerCampaigns ==
    [][\A n \in Nodes :
          (Polled(n) /\ last'.handler = "handle_timer" /\ Role(n) = "Follower")
              => CampaignStarted(n)]_vars

NoEntryAt(node, call) ==
    call.prev_log_index > Len(node.persistent_state.log)

PollOrder(poll) ==
    CASE poll = "socket" -> 1 [] poll = "client" -> 2 [] OTHER -> 3

====
